---- MODULE Spec2Model ----
(***************************************************************************)
(* HardwareHouse (src/hardwarehouse.py): the collectors, the benchmark     *)
(* tiers and their worker threads, the session record current_info, the    *)
(* textbox, and the JSON and CSV exporters.                                *)
(*                                                                         *)
(* A Python value is a tagged pair:                                        *)
(*   <<"str", s>>  <<"int", n>>  <<"bool", b>>  <<"none", "None">>         *)
(*   <<"attr", text>>   a scalar read from the platform, left symbolic     *)
(*   <<"dict", <<k1, v1>>, ... in insertion order>>                        *)
(*   <<"list", elements>>                                                  *)
(***************************************************************************)
EXTENDS Integers, Sequences, FiniteSets, TLC

VARIABLES
    app,           \* which class runs: "base" HardwareHouseApp, "ext" ExtendedHardwareHouseApp
    current_info,  \* self.current_info
    textbox,       \* self.textbox: the entries inserted since the last delete
    workers,       \* the benchmark threads alive, in start order
    callbacks,     \* the textbox.after(0, ...) callbacks the main loop has not run yet
    fetched,       \* whether current_info was assigned since construction
    displayed,     \* the record display_info rendered last
    record,        \* exporter check: the record handed to export_json / export_csv
    jsonFile,      \* exporter check: hardware_report.json, as lexemes (<<>>: absent or empty)
    csvFile,       \* exporter check: hardware_report.csv, as rows (<<>>: absent or empty)
    result,        \* exporter check: what the export returned
    reparsed,      \* exporter check: json.load of the written file
    phase          \* exporter check: "start", "json", "reparsed", "csv"

appVars == <<app, current_info, textbox, workers, callbacks, fetched, displayed>>
exportVars == <<record, jsonFile, csvFile, result, reparsed, phase>>
vars == <<app, current_info, textbox, workers, callbacks, fetched, displayed,
          record, jsonFile, csvFile, result, reparsed, phase>>

-----------------------------------------------------------------------------
(* Bounds *)

\* items a list collector enumerates before it returns or its query raises
MaxItems == 1
\* benchmark tiers in progress at once: threads alive and callbacks pending
MaxWorkers == 2
\* export notes the textbox holds before a further export is not taken
MaxNotes == 1
\* elements of a list in the records the exporters are checked on
MaxLen == 2

-----------------------------------------------------------------------------
(* Python values *)

PyStr(s) == <<"str", s>>
PyInt(n) == <<"int", n>>
PyBool(b) == <<"bool", b>>
PyNone == <<"none", "None">>
PyDict(items) == <<"dict", items>>
PyList(elems) == <<"list", elems>>

IsDict(v) == v[1] = "dict"
IsList(v) == v[1] = "list"
Items(d) == d[2]
Keys(d) == { Items(d)[i][1] : i \in 1..Len(Items(d)) }
HasKey(d, k) == k \in Keys(d)
Get(d, k) == Items(d)[CHOOSE i \in 1..Len(Items(d)) : Items(d)[i][1] = k][2]

\* d[k] = v: an existing key keeps its place, a new key goes last
SetItem(d, k, v) ==
    IF HasKey(d, k)
    THEN PyDict([i \in 1..Len(Items(d)) |->
                 IF Items(d)[i][1] = k THEN <<k, v>> ELSE Items(d)[i]])
    ELSE PyDict(Append(Items(d), <<k, v>>))

RECURSIVE UpdateFrom(_, _, _)
UpdateFrom(d, e, i) ==
    IF i > Len(Items(e)) THEN d
    ELSE UpdateFrom(SetItem(d, Items(e)[i][1], Items(e)[i][2]), e, i + 1)

\* results = probe() in place of results.update(probe())
dict_update_replacing(d, e) == e

\* dict.update(e)
dict_update(d, e) == UpdateFrom(d, e, 1)

\* bool(v) as `if self.current_info:` takes it
Truthy(v) ==
    CASE v[1] \in {"dict", "list"} -> Len(v[2]) > 0
      [] v[1] = "str" -> v[2] # ""
      [] v[1] = "int" -> v[2] # 0
      [] v[1] = "bool" -> v[2]
      [] v[1] = "none" -> FALSE
      [] OTHER -> TRUE

\* f"...{str(e)}" with the exception's text left symbolic
Failed(what) == PyStr("Failed to get " \o what \o ": <e>")
ErrorDict(what) == PyDict(<< <<"Error", Failed(what)>> >>)

\* a platform attribute read: its value is whatever the platform reports
Attr(name) == <<"attr", "<" \o name \o ">">>
ItemAttr(name, i) == <<"attr", "<" \o name \o " " \o ToString(i) \o ">">>

-----------------------------------------------------------------------------
(* Hardware info collectors.  Each takes the outcome of its platform query. *)

DictOutcomes == {"ok", "raise"}
WmiOutcomes == {"ok", "empty", "raise"}
BatteryOutcomes == {"ok", "none", "raise"}
\* <<n, raised>>: n items were appended, then the query returned or raised
ListOutcomes == (0..MaxItems) \X BOOLEAN

\* a list built by appends in a try block whose handler appends the Error dict
ListCollected(appended, raised, what) ==
    PyList(IF raised THEN Append(appended, ErrorDict(what)) ELSE appended)

get_system_info ==
    PyDict(<< <<"System", Attr("uname.system")>>,
              <<"Node Name", Attr("uname.node")>>,
              <<"Release", Attr("uname.release")>>,
              <<"Version", Attr("uname.version")>>,
              <<"Machine", Attr("uname.machine")>>,
              <<"Processor", Attr("uname.processor")>>,
              <<"Python Version", Attr("python_version")>> >>)

get_cpu_info(o) ==
    CASE o = "ok" ->
           PyDict(<< <<"Name", Attr("cpu.Name")>>,
                     <<"Manufacturer", Attr("cpu.Manufacturer")>>,
                     <<"Cores (Physical)", Attr("cpu.NumberOfCores")>>,
                     <<"Threads (Logical)", Attr("cpu.NumberOfLogicalProcessors")>>,
                     <<"Max Clock Speed (MHz)", Attr("cpu.MaxClockSpeed")>>,
                     <<"Current Clock Speed (MHz)", Attr("cpu.CurrentClockSpeed")>>,
                     <<"Architecture", Attr("cpu.Architecture")>>,
                     <<"Processor ID", Attr("cpu.ProcessorId")>>,
                     <<"L2 Cache Size (KB)", Attr("cpu.L2CacheSize")>>,
                     <<"L3 Cache Size (KB)", Attr("cpu.L3CacheSize")>> >>)
      [] o = "empty" -> PyDict(<<>>)
      [] OTHER -> SetItem(PyDict(<<>>), "Error", Failed("CPU info"))

GpuItem(i) ==
    PyDict(<< <<"Name", ItemAttr("gpu.Name", i)>>,
              <<"Driver Version", ItemAttr("gpu.DriverVersion", i)>>,
              <<"Video Processor", ItemAttr("gpu.VideoProcessor", i)>>,
              <<"RAM (MB)", ItemAttr("gpu.AdapterRAM", i)>>,
              <<"Video Mode", ItemAttr("gpu.VideoModeDescription", i)>>,
              <<"Status", ItemAttr("gpu.Status", i)>> >>)
get_gpu_info(o) == ListCollected([i \in 1..o[1] |-> GpuItem(i)], o[2], "GPU info")

get_ram_info(o) ==
    IF o = "ok"
    THEN PyDict(<< <<"Total RAM (GB)", Attr("vm.total")>>,
                   <<"Available RAM (GB)", Attr("vm.available")>>,
                   <<"Used RAM (GB)", Attr("vm.used")>>,
                   <<"RAM Usage (%)", Attr("vm.percent")>>,
                   <<"Total Swap (GB)", Attr("swap.total")>>,
                   <<"Used Swap (GB)", Attr("swap.used")>>,
                   <<"Swap Usage (%)", Attr("swap.percent")>> >>)
    ELSE ErrorDict("RAM info")

DiskItem(i) ==
    PyDict(<< <<"Device", ItemAttr("p.device", i)>>,
              <<"Mountpoint", ItemAttr("p.mountpoint", i)>>,
              <<"File System", ItemAttr("p.fstype", i)>>,
              <<"Total Size (GB)", ItemAttr("usage.total", i)>>,
              <<"Used (GB)", ItemAttr("usage.used", i)>>,
              <<"Free (GB)", ItemAttr("usage.free", i)>>,
              <<"Usage (%)", ItemAttr("usage.percent", i)>> >>)
get_disk_info(o) == ListCollected([i \in 1..o[1] |-> DiskItem(i)], o[2], "disk info")

NetworkItem(i) ==
    PyDict(<< <<"Interface", ItemAttr("iface_name", i)>>,
              <<"Status", ItemAttr("Up/Down", i)>>,
              <<"IPv4 Addresses", PyList(<<ItemAttr("ips", i)>>)>>,
              <<"MAC Addresses", PyList(<<ItemAttr("macs", i)>>)>> >>)
get_network_info(o) == ListCollected([i \in 1..o[1] |-> NetworkItem(i)], o[2], "network info")

get_bios_info(o) ==
    CASE o = "ok" ->
           PyDict(<< <<"Manufacturer", Attr("bios.Manufacturer")>>,
                     <<"Version", Attr("bios.SMBIOSBIOSVersion")>>,
                     <<"Release Date", Attr("bios.ReleaseDate")>>,
                     <<"Serial Number", Attr("bios.SerialNumber")>>,
                     <<"BIOS Language", Attr("bios.BIOSLanguage")>> >>)
      [] o = "empty" -> PyDict(<<>>)
      [] OTHER -> SetItem(PyDict(<<>>), "Error", Failed("BIOS info"))

get_motherboard_info(o) ==
    CASE o = "ok" ->
           PyDict(<< <<"Manufacturer", Attr("board.Manufacturer")>>,
                     <<"Product", Attr("board.Product")>>,
                     <<"Serial Number", Attr("board.SerialNumber")>>,
                     <<"Version", Attr("board.Version")>>,
                     <<"Model", Attr("board.Model")>> >>)
      [] o = "empty" -> PyDict(<<>>)
      [] OTHER -> SetItem(PyDict(<<>>), "Error", Failed("Motherboard info"))

SoundItem(i) ==
    PyDict(<< <<"Name", ItemAttr("sound.Name", i)>>,
              <<"Status", ItemAttr("sound.Status", i)>>,
              <<"Manufacturer", ItemAttr("sound.Manufacturer", i)>> >>)
get_sound_devices(o) == ListCollected([i \in 1..o[1] |-> SoundItem(i)], o[2], "Sound Devices info")

get_battery_info(o) ==
    CASE o = "ok" ->
           PyDict(<< <<"Percent", Attr("battery.percent")>>,
                     <<"Plugged In", Attr("battery.power_plugged")>>,
                     <<"Secs Left", Attr("battery.secsleft")>> >>)
      [] o = "none" -> PyDict(<< <<"Info", PyStr("No battery detected")>> >>)
      [] OTHER -> ErrorDict("battery info")

get_process_count(o) ==
    IF o = "ok" THEN PyDict(<< <<"Running Processes", Attr("len(pids)")>> >>)
    ELSE ErrorDict("process count")

get_boot_time(o) ==
    IF o = "ok" THEN PyDict(<< <<"Boot Time", Attr("boot_time")>> >>)
    ELSE ErrorDict("boot time")

\* devices.append(dev): the elements are strings, not dicts
UsbItem(i) == ItemAttr("dev", i)
get_usb_devices(o) == ListCollected([i \in 1..o[1] |-> UsbItem(i)], o[2], "USB devices")

MonitorItem(i) ==
    PyDict(<< <<"Name", ItemAttr("monitor.Name", i)>>,
              <<"Screen Height", ItemAttr("monitor.ScreenHeight", i)>>,
              <<"Screen Width", ItemAttr("monitor.ScreenWidth", i)>>,
              <<"Status", ItemAttr("monitor.Status", i)>> >>)
get_display_monitors(o) == ListCollected([i \in 1..o[1] |-> MonitorItem(i)], o[2], "monitor info")

PrinterItem(i) ==
    PyDict(<< <<"Name", ItemAttr("printer.Name", i)>>,
              <<"Status", ItemAttr("printer.Status", i)>>,
              <<"Default", ItemAttr("printer.Default", i)>>,
              <<"Network", ItemAttr("printer.Network", i)>>,
              <<"Shared", ItemAttr("printer.Shared", i)>> >>)
get_printers(o) == ListCollected([i \in 1..o[1] |-> PrinterItem(i)], o[2], "printers info")

SoftwareItem(i) ==
    PyDict(<< <<"Name", ItemAttr("software.Name", i)>>,
              <<"Version", ItemAttr("software.Version", i)>>,
              <<"Vendor", ItemAttr("software.Vendor", i)>>,
              <<"Install Date", ItemAttr("software.InstallDate", i)>> >>)
get_installed_software(o) == ListCollected([i \in 1..o[1] |-> SoftwareItem(i)], o[2], "software list")

get_power_plan(o) ==
    IF o = "ok" THEN PyDict(<< <<"Power Plan", Attr("powercfg line")>> >>)
    ELSE ErrorDict("power plan")

get_system_locale(o) ==
    IF o = "ok" THEN PyDict(<< <<"Locale", Attr("getdefaultlocale()")>>,
                               <<"Timezone", Attr("time.tzname")>> >>)
    ELSE ErrorDict("locale info")

get_system_uptime(o) ==
    IF o = "ok" THEN PyDict(<< <<"Uptime", Attr("uptime")>> >>)
    ELSE ErrorDict("uptime")

-----------------------------------------------------------------------------
(* Benchmark probes.  A probe either returns a dict or raises:             *)
(* [raised |-> FALSE, value |-> dict] or [raised |-> TRUE, value |-> {}].  *)

Returns(d) == [raised |-> FALSE, value |-> d]
Raises == [raised |-> TRUE, value |-> PyDict(<<>>)]

CpuDuration == 3

\* no platform call in the loop: it always returns
cpu_benchmark(duration) ==
    Returns(PyDict(<< <<"CPU Benchmark (loops in " \o ToString(duration) \o "s)",
                        Attr("count")>> >>))

\* bytearray(100_000_000) is outside any try: a MemoryError leaves the function
MemoryOutcomes == {"ok", "raise"}
memory_benchmark(o) ==
    IF o = "ok"
    THEN Returns(PyDict(<< <<"Memory Benchmark (sum bytes)", Attr("elapsed seconds")>> >>))
    ELSE Raises

\* the step of the try block that raises, or "none"
DiskOutcomes == {"none", "create", "write", "read", "remove"}
disk_benchmark(o) ==
    IF o = "none"
    THEN Returns(PyDict(<< <<"Disk Benchmark (write/read 10MB)", Attr("elapsed seconds")>> >>))
    ELSE Returns(PyDict(<< <<"Disk Benchmark Error", PyStr("<e>")>> >>))

\* whether the file NamedTemporaryFile(delete=False) created is on disk when
\* disk_benchmark returns: os.remove is the last statement of the try block, and
\* the except branch removes nothing
disk_benchmark_leaves_file(o) == o \in {"write", "read", "remove"}

extended_cpu_benchmark ==
    Returns(PyDict(<< <<"Extended CPU Benchmark loops", Attr("count")>> >>))

\* "import": import numpy, before the try, raises; "raise": the try block raises
ExtMemoryOutcomes == {"ok", "raise", "import"}
extended_memory_benchmark(o) ==
    CASE o = "ok" ->
           Returns(PyDict(<< <<"Extended Memory Benchmark (sum 10M floats)",
                               Attr("elapsed seconds")>> >>))
      [] o = "raise" ->
           Returns(PyDict(<< <<"Error", PyStr("Failed extended memory benchmark: <e>")>> >>))
      [] OTHER -> Raises

ExtDiskOutcomes == {"none", "mktemp", "write", "read", "remove"}
extended_disk_benchmark(o) ==
    IF o = "none"
    THEN Returns(PyDict(<< <<"Extended Disk Benchmark (3x 50MB write/read)",
                             Attr("elapsed seconds")>> >>))
    ELSE Returns(PyDict(<< <<"Error", PyStr("Failed extended disk benchmark: <e>")>> >>))

-----------------------------------------------------------------------------
(* Text *)

RECURSIVE Spaces(_)
Spaces(n) == IF n <= 0 THEN "" ELSE " " \o Spaces(n - 1)

RECURSIVE PyRepr(_)
RECURSIVE ReprItems(_, _)
RECURSIVE ReprElems(_, _)
\* repr(v), as str() of a container shows its members
PyRepr(v) ==
    CASE v[1] = "str" -> "'" \o v[2] \o "'"
      [] v[1] = "attr" -> v[2]
      [] v[1] = "int" -> ToString(v[2])
      [] v[1] = "bool" -> IF v[2] THEN "True" ELSE "False"
      [] v[1] = "none" -> "None"
      [] v[1] = "dict" -> "{" \o ReprItems(v[2], 1) \o "}"
      [] OTHER -> "[" \o ReprElems(v[2], 1) \o "]"
ReprItems(items, i) ==
    IF i > Len(items) THEN ""
    ELSE (IF i > 1 THEN ", " ELSE "") \o "'" \o items[i][1] \o "': "
         \o PyRepr(items[i][2]) \o ReprItems(items, i + 1)
ReprElems(elems, i) ==
    IF i > Len(elems) THEN ""
    ELSE (IF i > 1 THEN ", " ELSE "") \o PyRepr(elems[i]) \o ReprElems(elems, i + 1)

\* str(v), as an f-string or csv.writer formats a value
PyFormat(v) == IF v[1] = "str" THEN v[2] ELSE PyRepr(v)

RECURSIVE Concat(_)
\* the concatenation of a sequence of sequences
Concat(parts) == IF parts = <<>> THEN <<>> ELSE Head(parts) \o Concat(Tail(parts))

-----------------------------------------------------------------------------
(* display_info: the strings recursive_display inserts, in order *)

RECURSIVE recursive_display(_, _)
recursive_display(data, indent) ==
    LET indent_str == Spaces(indent * 4)
    IN  CASE IsDict(data) ->
               LET field(i) ==
                     LET k == Items(data)[i][1]
                         v == Items(data)[i][2]
                     IN  IF IsDict(v) \/ IsList(v)
                         THEN <<indent_str \o k \o ":\n">> \o recursive_display(v, indent + 1)
                         ELSE <<indent_str \o k \o ": " \o PyFormat(v) \o "\n">>
               IN  Concat([i \in 1..Len(Items(data)) |-> field(i)])
          [] IsList(data) ->
               LET elem(i) ==
                     <<indent_str \o "- Item " \o ToString(i) \o ":\n">>
                     \o recursive_display(data[2][i], indent + 1)
               IN  Concat([i \in 1..Len(data[2]) |-> elem(i)])
          [] OTHER -> <<indent_str \o PyFormat(data) \o "\n">>

\* textbox.delete("0.0", "end"), then recursive_display(info)
display_info(info) == recursive_display(info, 0)

-----------------------------------------------------------------------------
(* export_csv: the rows handed to writer.writerow, in order.  A row is the *)
(* sequence of its fields as csv.writer formats them.                      *)

\* csv.writer writes None as the empty field and anything else as str(v)
CsvField(v) == IF v[1] = "none" THEN "" ELSE PyFormat(v)

RECURSIVE write_dict(_, _)
\* write_dict with the prefix of an element's fields extended by two spaces
write_dict_two_spaces(d, prefix) ==
    LET field(n) ==
          LET k == Items(d)[n][1]
              v == Items(d)[n][2]
              item(i) ==
                IF IsDict(v[2][i])
                THEN << <<"  Item " \o ToString(i)>> >> \o write_dict(v[2][i], prefix \o "  ")
                ELSE << <<"  Item " \o ToString(i) \o ": " \o PyFormat(v[2][i])>> >>
          IN  IF IsList(v)
              THEN << <<prefix \o k>> >> \o Concat([i \in 1..Len(v[2]) |-> item(i)])
              ELSE << <<prefix \o k, CsvField(v)>> >>
    IN  Concat([i \in 1..Len(Items(d)) |-> field(i)])

write_dict(d, prefix) ==
    LET field(n) ==
          LET k == Items(d)[n][1]
              v == Items(d)[n][2]
              item(i) ==
                IF IsDict(v[2][i])
                THEN << <<"  Item " \o ToString(i)>> >> \o write_dict(v[2][i], prefix \o "    ")
                ELSE << <<"  Item " \o ToString(i) \o ": " \o PyFormat(v[2][i])>> >>
          IN  IF IsList(v)
              THEN << <<prefix \o k>> >> \o Concat([i \in 1..Len(v[2]) |-> item(i)])
              ELSE << <<prefix \o k, CsvField(v)>> >>
    IN  Concat([i \in 1..Len(Items(d)) |-> field(i)])

\* what the file system does to the export: nothing, open() raises, a write raises
IoOutcomes == {"ok", "open", "write"}

PyTrue == PyBool(TRUE)
IoError == PyStr("<e>")

\* [res |-> True or str(e), file |-> the file afterwards]; open(filename, "w")
\* truncates, so a failed write leaves the file empty and a failed open leaves it
export_csv(data, old, io) ==
    CASE io = "ok" -> [res |-> PyTrue, file |-> write_dict(data, "")]
      [] io = "write" -> [res |-> IoError, file |-> <<>>]
      [] OTHER -> [res |-> IoError, file |-> old]

-----------------------------------------------------------------------------
(* export_json: json.dump(data, f, indent=4).  The file is the sequence of *)
(* lexemes written: punctuation, whitespace runs and scalar texts.         *)

JsonIndent == 4

\* the strings and integers of the records exported here: what a scalar
\* lexeme can decode to.  None of the strings holds a character JSON escapes.
JsonStrings == {"", "1", "a", "true", "null", "A", "B", "C", "D"}
JsonInts == {0, 1, 2, 3}

JsonQuoted(s) == "\"" \o s \o "\""
NewlineIndent(level) == "\n" \o Spaces(JsonIndent * level)

\* a dump that writes a string's text without its quotes
json_scalar_unquoted(v) ==
    CASE v[1] = "str" -> v[2]
      [] v[1] = "int" -> ToString(v[2])
      [] v[1] = "bool" -> IF v[2] THEN "true" ELSE "false"
      [] v[1] = "none" -> "null"
      [] OTHER -> v[2]

\* the text of a scalar
json_scalar(v) ==
    CASE v[1] = "str" -> JsonQuoted(v[2])
      [] v[1] = "int" -> ToString(v[2])
      [] v[1] = "bool" -> IF v[2] THEN "true" ELSE "false"
      [] v[1] = "none" -> "null"
      [] OTHER -> v[2]

RECURSIVE json_dump(_, _)
json_dump(v, level) ==
    LET member(i) ==
          (IF i > 1 THEN <<",">> ELSE <<>>)
          \o <<NewlineIndent(level + 1), JsonQuoted(Items(v)[i][1]), ": ">>
          \o json_dump(Items(v)[i][2], level + 1)
        element(i) ==
          (IF i > 1 THEN <<",">> ELSE <<>>)
          \o <<NewlineIndent(level + 1)>> \o json_dump(v[2][i], level + 1)
    IN  CASE IsDict(v) ->
               IF Len(Items(v)) = 0 THEN <<"{", "}">>
               ELSE <<"{">> \o Concat([i \in 1..Len(Items(v)) |-> member(i)])
                    \o <<NewlineIndent(level), "}">>
          [] IsList(v) ->
               IF Len(v[2]) = 0 THEN <<"[", "]">>
               ELSE <<"[">> \o Concat([i \in 1..Len(v[2]) |-> element(i)])
                    \o <<NewlineIndent(level), "]">>
          [] OTHER -> <<json_scalar(v)>>

export_json(data, old, io) ==
    CASE io = "ok" -> [res |-> PyTrue, file |-> json_dump(data, 0)]
      [] io = "write" -> [res |-> IoError, file |-> <<>>]
      [] OTHER -> [res |-> IoError, file |-> old]

(* json.load of such a file *)

MaxNest == 4
JsonWhitespace == { NewlineIndent(n) : n \in 0..MaxNest }
JsonError == <<"error", "JSONDecodeError">>

IsStringLexeme(l) == \E s \in JsonStrings : JsonQuoted(s) = l
DecodeString(l) == CHOOSE s \in JsonStrings : JsonQuoted(s) = l
IsIntLexeme(l) == \E n \in JsonInts : ToString(n) = l
DecodeInt(l) == CHOOSE n \in JsonInts : ToString(n) = l

RECURSIVE SkipWs(_, _)
SkipWs(f, i) == IF i <= Len(f) /\ f[i] \in JsonWhitespace THEN SkipWs(f, i + 1) ELSE i

Parsed(v, next) == [val |-> v, next |-> next]
Failure == Parsed(JsonError, 0)

RECURSIVE ParseValue(_, _)
RECURSIVE ParseMembers(_, _, _)
RECURSIVE ParseElements(_, _, _)

\* the value that starts at lexeme i, and the index after it
ParseValue(f, i0) ==
    LET i == SkipWs(f, i0)
    IN  IF i > Len(f) THEN Failure
        ELSE CASE f[i] = "{" -> ParseMembers(f, i + 1, PyDict(<<>>))
               [] f[i] = "[" -> ParseElements(f, i + 1, <<>>)
               [] f[i] = "true" -> Parsed(PyBool(TRUE), i + 1)
               [] f[i] = "false" -> Parsed(PyBool(FALSE), i + 1)
               [] f[i] = "null" -> Parsed(PyNone, i + 1)
               [] IsStringLexeme(f[i]) -> Parsed(PyStr(DecodeString(f[i])), i + 1)
               [] IsIntLexeme(f[i]) -> Parsed(PyInt(DecodeInt(f[i])), i + 1)
               [] OTHER -> Failure

\* after "{" or after a member: "}" ends the object, else [","] key ": " value
ParseMembers(f, i0, acc) ==
    LET i == SkipWs(f, i0)
    IN  IF i > Len(f) THEN Failure
        ELSE IF f[i] = "}" THEN Parsed(acc, i + 1)
        ELSE LET j == IF Len(Items(acc)) > 0
                      THEN (IF f[i] = "," THEN SkipWs(f, i + 1) ELSE 0)
                      ELSE i
             IN  IF j = 0 \/ j + 1 > Len(f) THEN Failure
                 ELSE IF ~IsStringLexeme(f[j]) \/ f[j + 1] # ": " THEN Failure
                 ELSE LET r == ParseValue(f, j + 2)
                      IN  IF r.next = 0 THEN Failure
                          ELSE ParseMembers(f, r.next,
                                            SetItem(acc, DecodeString(f[j]), r.val))

ParseElements(f, i0, acc) ==
    LET i == SkipWs(f, i0)
    IN  IF i > Len(f) THEN Failure
        ELSE IF f[i] = "]" THEN Parsed(PyList(acc), i + 1)
        ELSE LET j == IF Len(acc) > 0
                      THEN (IF f[i] = "," THEN i + 1 ELSE 0)
                      ELSE i
             IN  IF j = 0 THEN Failure
                 ELSE LET r == ParseValue(f, j)
                      IN  IF r.next = 0 THEN Failure
                          ELSE ParseElements(f, r.next, Append(acc, r.val))

\* json.load: one value, then nothing but whitespace
json_load(f) ==
    LET r == ParseValue(f, 1)
    IN  IF r.next # 0 /\ SkipWs(f, r.next) > Len(f) THEN r.val ELSE JsonError

-----------------------------------------------------------------------------
(* The application *)

category_options ==
    <<"System Info", "CPU Info", "GPU Info", "RAM Info", "Disk Info", "Network Info",
      "BIOS Info", "Motherboard Info", "Sound Devices", "Battery Info", "Process Count",
      "Boot Time", "Benchmarks">>

extended_options ==
    <<"USB Devices", "Display Monitors", "Printers", "Installed Software", "Power Plan",
      "Locale & Timezone", "System Uptime", "Extended Benchmarks">>

Range(q) == { q[i] : i \in 1..Len(q) }

\* self.category_options of the running class
Catalog(a) ==
    IF a = "ext" THEN Range(category_options) \cup Range(extended_options)
    ELSE Range(category_options)

\* what combo.get() can return: a name of either list, or a name of neither
Selectable == Range(category_options) \cup Range(extended_options) \cup {"Nonexistent"}

UnknownCategory == PyDict(<< <<"Error", PyStr("Unknown category")>> >>)

\* the outcomes of the platform query behind a category
Outcomes(cat) ==
    CASE cat \in {"CPU Info", "BIOS Info", "Motherboard Info"} -> WmiOutcomes
      [] cat \in {"GPU Info", "Disk Info", "Network Info", "Sound Devices", "USB Devices",
                  "Display Monitors", "Printers", "Installed Software"} -> ListOutcomes
      [] cat = "Battery Info" -> BatteryOutcomes
      [] cat \in {"RAM Info", "Process Count", "Boot Time", "Power Plan",
                  "Locale & Timezone", "System Uptime"} -> DictOutcomes
      [] OTHER -> {"ok"}

\* the if/elif chain of HardwareHouseApp.show_info, the "Benchmarks" branch apart
HardwareHouseApp_info(cat, o) ==
    CASE cat = "System Info" -> get_system_info
      [] cat = "CPU Info" -> get_cpu_info(o)
      [] cat = "GPU Info" -> PyDict(<< <<"GPUs", get_gpu_info(o)>> >>)
      [] cat = "RAM Info" -> get_ram_info(o)
      [] cat = "Disk Info" -> PyDict(<< <<"Disks", get_disk_info(o)>> >>)
      [] cat = "Network Info" -> PyDict(<< <<"Network Adapters", get_network_info(o)>> >>)
      [] cat = "BIOS Info" -> get_bios_info(o)
      [] cat = "Motherboard Info" -> get_motherboard_info(o)
      [] cat = "Sound Devices" -> PyDict(<< <<"Sound Devices", get_sound_devices(o)>> >>)
      [] cat = "Battery Info" -> get_battery_info(o)
      [] cat = "Process Count" -> get_process_count(o)
      [] cat = "Boot Time" -> get_boot_time(o)
      [] OTHER -> UnknownCategory

ExtendedNames ==
    {"USB Devices", "Display Monitors", "Printers", "Installed Software", "Power Plan",
     "Locale & Timezone", "System Uptime"}

\* the if/elif chain of ExtendedHardwareHouseApp.show_info before its else
ExtendedHardwareHouseApp_info(cat, o) ==
    CASE cat = "USB Devices" -> PyDict(<< <<"USB Devices", get_usb_devices(o)>> >>)
      [] cat = "Display Monitors" ->
           PyDict(<< <<"Display Monitors", get_display_monitors(o)>> >>)
      [] cat = "Printers" -> PyDict(<< <<"Printers", get_printers(o)>> >>)
      [] cat = "Installed Software" ->
           PyDict(<< <<"Installed Software", get_installed_software(o)>> >>)
      [] cat = "Power Plan" -> get_power_plan(o)
      [] cat = "Locale & Timezone" -> get_system_locale(o)
      [] OTHER -> get_system_uptime(o)

\* threading.Thread(target=...).start(): the thread is about to run its first probe.
\* ran records the probes the thread has run and whether each failed; wrote
\* counts its assignments to self.current_info; tmpfile is whether the temporary
\* file of its disk probe is on disk.
NewWorker(tier) ==
    [tier |-> tier, pc |-> "cpu", results |-> PyDict(<<>>), ran |-> <<>>, wrote |-> 0,
     tmpfile |-> FALSE]

StartThread(tier, note) ==
    /\ Len(workers) + Len(callbacks) < MaxWorkers
    /\ textbox' = <<note>>
    /\ workers' = Append(workers, NewWorker(tier))
    /\ UNCHANGED <<current_info, callbacks, fetched, displayed>>

\* self.current_info = info; self.display_info(info)
StoreAndDisplay(info) ==
    /\ current_info' = info
    /\ textbox' = display_info(info)
    /\ displayed' = info
    /\ fetched' = TRUE
    /\ UNCHANGED <<workers, callbacks>>

HardwareHouseApp_show_info(cat) ==
    IF cat = "Benchmarks"
    THEN StartThread("base", "Running CPU benchmark...\n")
    ELSE \E o \in Outcomes(cat) : StoreAndDisplay(HardwareHouseApp_info(cat, o))

\* show_info without its else branch: info stays {} on any other name
ExtendedHardwareHouseApp_show_info_no_fallback(cat) ==
    IF cat \in ExtendedNames
    THEN \E o \in Outcomes(cat) : StoreAndDisplay(ExtendedHardwareHouseApp_info(cat, o))
    ELSE IF cat = "Extended Benchmarks"
    THEN StartThread("ext", "Running extended benchmarks...\n")
    ELSE StoreAndDisplay(PyDict(<<>>))

\* show_info overriding the base dispatch instead of falling back to it
ExtendedHardwareHouseApp_show_info_overriding(cat) ==
    IF cat \in ExtendedNames
    THEN \E o \in Outcomes(cat) : StoreAndDisplay(ExtendedHardwareHouseApp_info(cat, o))
    ELSE IF cat = "Extended Benchmarks"
    THEN StartThread("ext", "Running extended benchmarks...\n")
    ELSE StoreAndDisplay(UnknownCategory)

ExtendedHardwareHouseApp_show_info(cat) ==
    IF cat \in ExtendedNames
    THEN \E o \in Outcomes(cat) : StoreAndDisplay(ExtendedHardwareHouseApp_info(cat, o))
    ELSE IF cat = "Extended Benchmarks"
    THEN StartThread("ext", "Running extended benchmarks...\n")
    ELSE HardwareHouseApp_show_info(cat)

\* the Show Info button, with combo.get() = cat
ShowInfo(cat) ==
    /\ IF app = "ext" THEN ExtendedHardwareHouseApp_show_info(cat)
       ELSE HardwareHouseApp_show_info(cat)
    /\ UNCHANGED <<app, exportVars>>

\* whether the file the first open(filename, "wb") created is on disk when
\* extended_disk_benchmark returns: mktemp creates no file, "write" and "read"
\* raise in one of the three cycles, and the except branch removes nothing
extended_disk_benchmark_leaves_file(o) == o \in {"write", "read", "remove"}

\* one probe of a tier, with the outcome o of what it asks of the platform
Probe(tier, name, o) ==
    CASE name = "cpu" ->
           IF tier = "base" THEN cpu_benchmark(CpuDuration) ELSE extended_cpu_benchmark
      [] name = "mem" ->
           IF tier = "base" THEN memory_benchmark(o) ELSE extended_memory_benchmark(o)
      [] OTHER ->
           IF tier = "base" THEN disk_benchmark(o) ELSE extended_disk_benchmark(o)

ProbeOutcomes(tier, name) ==
    CASE name = "cpu" -> {"ok"}
      [] name = "mem" -> IF tier = "base" THEN MemoryOutcomes ELSE ExtMemoryOutcomes
      [] OTHER -> IF tier = "base" THEN DiskOutcomes ELSE ExtDiskOutcomes

\* whether the platform let the probe down: it raised, inside or outside a try
ProbeFailed(name, o) == name # "cpu" /\ o \notin {"ok", "none"}

\* whether probe name, with outcome o, returns with its temporary file on disk
LeavesFile(tier, name, o) ==
    /\ name = "disk"
    /\ IF tier = "base" THEN disk_benchmark_leaves_file(o)
       ELSE extended_disk_benchmark_leaves_file(o)

NextProbe(name) == CASE name = "cpu" -> "mem" [] name = "mem" -> "disk" [] OTHER -> "write"

RemoveAt(q, i) == SubSeq(q, 1, i - 1) \o SubSeq(q, i + 1, Len(q))

\* results.update(probe()), the probe having returned r.value
AfterProbe(w, r, failed, left) ==
    [w EXCEPT !.pc = NextProbe(w.pc), !.ran = Append(@, <<w.pc, failed>>),
              !.results = dict_update(@, r.value), !.tmpfile = left]

\* thread i runs its next probe; an exception the probe lets out leaves
\* run_benchmarks and ends the thread
RunProbe(i) ==
    /\ workers[i].pc \in {"cpu", "mem", "disk"}
    /\ \E o \in ProbeOutcomes(workers[i].tier, workers[i].pc) :
         LET r == Probe(workers[i].tier, workers[i].pc, o)
         IN  workers' = IF r.raised THEN RemoveAt(workers, i)
                        ELSE [workers EXCEPT
                                ![i] = AfterProbe(@, r, ProbeFailed(workers[i].pc, o),
                                                  LeavesFile(workers[i].tier,
                                                             workers[i].pc, o))]
    /\ UNCHANGED <<current_info, textbox, callbacks, fetched, displayed>>

\* self.current_info = results
WriteResults(i) ==
    /\ workers[i].pc = "write"
    /\ current_info' = workers[i].results
    /\ fetched' = TRUE
    /\ workers' = [workers EXCEPT ![i].pc = "post", ![i].wrote = @ + 1]
    /\ UNCHANGED <<textbox, callbacks, displayed>>

\* self.textbox.after(0, lambda: self.display_info(results)), the last statement
\* of the thread
PostCallback(i) ==
    /\ workers[i].pc = "post"
    /\ callbacks' = Append(callbacks, workers[i].results)
    /\ workers' = RemoveAt(workers, i)
    /\ UNCHANGED <<current_info, textbox, fetched, displayed>>

\* run_benchmarks / run_extended_benchmarks, one statement at a time
Worker ==
    /\ \E i \in 1..Len(workers) : RunProbe(i) \/ WriteResults(i) \/ PostCallback(i)
    /\ UNCHANGED <<app, exportVars>>

\* the main loop runs the oldest pending callback: display_info(results)
RunCallback ==
    /\ callbacks # <<>>
    /\ textbox' = display_info(Head(callbacks))
    /\ displayed' = Head(callbacks)
    /\ callbacks' = Tail(callbacks)
    /\ UNCHANGED <<app, current_info, workers, fetched, exportVars>>

NoData == "\nNo data to export!\n"
ExportedNote(name) == "\nExported data to hardware_report." \o name \o "\n"
ErrorNote(NAME, res) == "\nError exporting " \o NAME \o ": " \o PyFormat(res) \o "\n"
ExportNotes ==
    {NoData, ExportedNote("json"), ExportedNote("csv"),
     ErrorNote("JSON", IoError), ErrorNote("CSV", IoError)}

RECURSIVE NotesIn(_)
NotesIn(t) ==
    IF t = <<>> THEN 0 ELSE (IF Head(t) \in ExportNotes THEN 1 ELSE 0) + NotesIn(Tail(t))

\* a handler that drops the record when its export failed
Report_clearing(name, NAME, res) ==
    /\ textbox' = Append(textbox, IF res = PyTrue THEN ExportedNote(name)
                                  ELSE ErrorNote(NAME, res))
    /\ current_info' = IF res = PyTrue THEN current_info ELSE PyDict(<<>>)
    /\ UNCHANGED <<workers, callbacks, fetched, displayed>>

\* the rest of an export handler once the exporter returned res
Report(name, NAME, res) ==
    /\ textbox' = Append(textbox, IF res = PyTrue THEN ExportedNote(name)
                                  ELSE ErrorNote(NAME, res))
    /\ UNCHANGED <<current_info, workers, callbacks, fetched, displayed>>

\* the else branch of an export handler
Skip ==
    /\ textbox' = Append(textbox, NoData)
    /\ UNCHANGED <<current_info, workers, callbacks, fetched, displayed>>

\* the Export JSON button.  Its two reads of self.current_info are taken in one
\* step: a thread's write between them gives the outcome of the export running
\* just before or just after that write.
HardwareHouseApp_export_json ==
    /\ NotesIn(textbox) < MaxNotes
    /\ IF Truthy(current_info)
       THEN \E io \in IoOutcomes :
              Report("json", "JSON", export_json(current_info, <<>>, io).res)
       ELSE Skip
    /\ UNCHANGED <<app, exportVars>>

\* the Export CSV button
HardwareHouseApp_export_csv ==
    /\ NotesIn(textbox) < MaxNotes
    /\ IF Truthy(current_info)
       THEN \E io \in IoOutcomes :
              Report("csv", "CSV", export_csv(current_info, <<>>, io).res)
       ELSE Skip
    /\ UNCHANGED <<app, exportVars>>

-----------------------------------------------------------------------------
(* The program: both classes, the operator at the buttons, the threads *)

Init ==
    /\ app \in {"base", "ext"}
    /\ current_info = PyDict(<<>>)
    /\ textbox = <<>>
    /\ workers = <<>>
    /\ callbacks = <<>>
    /\ fetched = FALSE
    /\ displayed = PyDict(<<>>)
    /\ record = PyDict(<<>>)
    /\ jsonFile = <<>>
    /\ csvFile = <<>>
    /\ result = PyNone
    /\ reparsed = PyNone
    /\ phase = "idle"

\* the names the operator picks while tiers run: a collector that can return {},
\* both tiers, and (in the base class) a name the class does not know
FocusNames == {"CPU Info", "Benchmarks", "Extended Benchmarks"}

Show == \E cat \in FocusNames : ShowInfo(cat)

Next ==
    \/ Show
    \/ Worker
    \/ RunCallback
    \/ HardwareHouseApp_export_json
    \/ HardwareHouseApp_export_csv

Spec == Init /\ [][Next]_vars

\* no tier is in flight and no callback is pending
Idle == callbacks = <<>> /\ workers = <<>>

\* the whole catalog and any other name, by an operator who lets a running tier
\* end before the next click
ShowAny == Idle /\ \E cat \in Selectable : ShowInfo(cat)
ExportJsonIdle == Idle /\ HardwareHouseApp_export_json
ExportCsvIdle == Idle /\ HardwareHouseApp_export_csv

NextCatalog ==
    \/ ShowAny
    \/ Worker
    \/ RunCallback
    \/ ExportJsonIdle
    \/ ExportCsvIdle

SpecCatalog == Init /\ [][NextCatalog]_vars

-----------------------------------------------------------------------------
(* The exporters on their own: one record is exported, structured or flat, *)
(* and the structured file is parsed back.                                 *)

SeqsUpTo(S, n) == UNION { [1..k -> S] : k \in 0..n }

\* ordered dicts with distinct keys drawn from K, values from V
DictsOver(K, V) ==
    { PyDict(<<>>) }
    \cup { PyDict(<< <<k, v>> >>) : k \in K, v \in V }
    \cup { PyDict(<< <<k[1], v[1]>>, <<k[2], v[2]>> >>) :
             k \in { kk \in K \X K : kk[1] # kk[2] }, v \in V \X V }

Scalars == { PyInt(1), PyStr("1"), PyStr("true"), PyBool(TRUE), PyNone }

\* what a list holds: scalars, an empty Object, an Object
Elements ==
    { PyInt(1), PyStr("1"), PyDict(<<>>), PyDict(<< <<"C", PyInt(2)>> >>) }

\* what a field holds: a scalar, an Object (empty, flat or nested), a List
Values ==
    Scalars
    \cup { PyDict(<<>>), PyDict(<< <<"C", PyList(<<>>)>> >>),
           PyDict(<< <<"C", PyDict(<<>>)>> >>),
           PyDict(<< <<"C", PyDict(<< <<"D", PyInt(1)>> >>)>> >>) }
    \cup { PyDict(<< <<"C", x>> >>) : x \in Scalars }
    \cup { PyList(e) : e \in SeqsUpTo(Elements, MaxLen) }

\* the record of the flat export's documented example
Example ==
    PyDict(<< <<"A", PyInt(1)>>,
              <<"B", PyList(<< PyDict(<< <<"C", PyInt(2)>> >>),
                               PyDict(<< <<"C", PyInt(3)>> >>) >>)>> >>)

FactRecords == DictsOver({"A", "B"}, Values) \cup {Example}

InitExport ==
    /\ app = "ext"
    /\ current_info = PyDict(<<>>)
    /\ textbox = <<>>
    /\ workers = <<>>
    /\ callbacks = <<>>
    /\ fetched = FALSE
    /\ displayed = PyDict(<<>>)
    /\ record \in FactRecords
    /\ jsonFile = <<>>
    /\ csvFile = <<>>
    /\ result = PyNone
    /\ reparsed = PyNone
    /\ phase = "start"

\* export_json(record)
RunExportJson ==
    /\ phase = "start"
    /\ \E io \in IoOutcomes :
         LET r == export_json(record, jsonFile, io)
         IN  /\ jsonFile' = r.file
             /\ result' = r.res
    /\ phase' = "json"
    /\ UNCHANGED <<appVars, record, csvFile, reparsed>>

\* json.load of hardware_report.json after an export that returned True
RunReparse ==
    /\ phase = "json"
    /\ result = PyTrue
    /\ reparsed' = json_load(jsonFile)
    /\ phase' = "reparsed"
    /\ UNCHANGED <<appVars, record, jsonFile, csvFile, result>>

\* export_csv(record)
RunExportCsv ==
    /\ phase = "start"
    /\ \E io \in IoOutcomes :
         LET r == export_csv(record, csvFile, io)
         IN  /\ csvFile' = r.file
             /\ result' = r.res
    /\ phase' = "csv"
    /\ UNCHANGED <<appVars, record, jsonFile, reparsed>>

NextExport == RunExportJson \/ RunReparse \/ RunExportCsv

SpecExport == InitExport /\ [][NextExport]_vars

-----------------------------------------------------------------------------
(* Properties *)

ProbeOrder == <<"cpu", "mem", "disk">>
CpuKey == "CPU Benchmark (loops in 3s)"
MemoryKey == "Memory Benchmark (sum bytes)"
DiskKey == "Disk Benchmark (write/read 10MB)"
DiskErrorKey == "Disk Benchmark Error"
ErrorKeys == {"Error", DiskErrorKey}

\* the three fields of a baseline tier, one per probe, in probe order
BaselineRecord(d) ==
    /\ IsDict(d)
    /\ Len(Items(d)) = 3
    /\ Items(d)[1][1] = CpuKey
    /\ Items(d)[2][1] = MemoryKey
    /\ Items(d)[3][1] \in {DiskKey, DiskErrorKey}

\* thread i writes self.current_info in this step
Writes(i) ==
    /\ Len(workers') = Len(workers)
    /\ workers'[i].wrote = workers[i].wrote + 1

\* thread i ends in this step
Ends(i) == workers' = RemoveAt(workers, i)

\* C1: the step in which a baseline thread writes current_info leaves in it
\* exactly three fields: the CPU count, the memory time, and the disk time or
\* the disk probe's Error entry.
C1_BaselineWritesThreeFields ==
    [][\A i \in 1..Len(workers) :
         (workers[i].tier = "base" /\ Writes(i)) => BaselineRecord(current_info')]_vars

\* a baseline thread has just written the record of a tier whose disk probe failed
C1_Witness ==
    \E i \in 1..Len(workers) :
      /\ workers[i].tier = "base"
      /\ workers[i].pc = "post"
      /\ current_info = workers[i].results
      /\ HasKey(current_info, DiskErrorKey)

FailedProbes(w) == { j \in 1..Len(w.ran) : w.ran[j][2] }

\* C2: no probe failure ends a thread (a thread ends only by posting its
\* callback), and once the three probes of a tier have run its merged result
\* holds three fields, one per probe, as many of them Error fields as probes
\* failed.
C2_EveryFailureCaughtAndKept ==
    [][/\ \A i \in 1..Len(workers) : Ends(i) => workers[i].pc = "post"
       /\ \A i \in 1..Len(workers') :
            Len(workers'[i].ran) = 3 =>
              /\ Len(Items(workers'[i].results)) = 3
              /\ Cardinality(Keys(workers'[i].results) \cap ErrorKeys)
                   = Cardinality(FailedProbes(workers'[i]))]_vars

\* C3: at most one benchmark thread is in flight.
C3_OneTierInFlight == Len(workers) <= 1

\* C4: a thread's probes run in the order CPU, memory, disk; it writes
\* current_info only after the three probes; and when it ends it has written
\* exactly once and ends by posting its one callback.
C4_OrderedWrittenOncePostedOnce ==
    [][/\ \A i \in 1..Len(workers') :
            LET w == workers'[i]
            IN  /\ Len(w.ran) <= 3
                /\ \A j \in 1..Len(w.ran) : w.ran[j][1] = ProbeOrder[j]
                /\ w.wrote >= 1 => Len(w.ran) = 3
       /\ \A i \in 1..Len(workers) :
            Ends(i) => /\ workers[i].wrote = 1
                       /\ workers[i].pc = "post"
                       /\ callbacks' = Append(callbacks, workers[i].results)]_vars

\* C11: once the disk probe of a thread has returned, on whatever path, its
\* temporary file is no longer on disk.
C11_TempFileDeleted ==
    \A i \in 1..Len(workers) : Len(workers[i].ran) = 3 => ~workers[i].tmpfile

\* C12: whenever no thread is alive and no callback is pending, the record
\* display_info rendered last is the record current_info holds.
C12_DisplayedIsCurrent == Idle => displayed = current_info

\* a thread of the tier starts in this step
Starts(tier) ==
    /\ Len(workers') = Len(workers) + 1
    /\ workers'[Len(workers')] = NewWorker(tier)
    /\ current_info' = current_info

\* C13: in the extended class, Show Info on a base name has the effect the base
\* class's show_info has on it; on an extended name it stores what that name's
\* own collector returned; "Benchmarks" and "Extended Benchmarks" start their
\* own tier; and no name of the catalog stores the Unknown-category record.
C13_ExtendedDispatch ==
    [][app = "ext" =>
         \A cat \in Catalog("ext") :
           ShowInfo(cat) =>
             /\ cat \in Range(category_options) => HardwareHouseApp_show_info(cat)
             /\ cat \in ExtendedNames =>
                  \E o \in Outcomes(cat) :
                    current_info' = ExtendedHardwareHouseApp_info(cat, o)
             /\ cat = "Benchmarks" => Starts("base")
             /\ cat = "Extended Benchmarks" => Starts("ext")
             /\ cat \notin {"Benchmarks", "Extended Benchmarks"} =>
                  current_info' # UnknownCategory]_vars

\* the extended class has shown a base name's record through the base dispatch
C13_Witness ==
    /\ app = "ext"
    /\ current_info = get_system_info
    /\ displayed = current_info

IsScalar(v) == ~IsDict(v) /\ ~IsList(v)

\* an Object whose fields are scalars or Lists of Objects
WellFormedRecord(d) ==
    /\ IsDict(d)
    /\ \A n \in 1..Len(Items(d)) :
         LET v == Items(d)[n][2]
         IN  \/ IsScalar(v)
             \/ IsList(v) /\ \A j \in 1..Len(v[2]) : IsDict(v[2][j])

\* C5: once a record has been fetched, current_info is an Object or a List of
\* Objects under the category's label.
C5_FetchedRecordWellFormed == fetched => WellFormedRecord(current_info)

UnknownShown == <<"Error: Unknown category\n">>

\* C6: Show Info with a name outside the running class's catalog stores the
\* Object with the single field Error = "Unknown category" and displays it.
C6_UnknownCategory ==
    [][\A cat \in Selectable \ Catalog(app) :
         ShowInfo(cat) => /\ current_info' = UnknownCategory
                          /\ textbox' = UnknownShown]_vars

\* the extended class has fallen through to the base dispatch on an unknown name
C6_Witness ==
    /\ app = "ext"
    /\ current_info = UnknownCategory
    /\ textbox = UnknownShown

\* a step of an export handler: it appends one of the export notes
ExportStep == \E n \in ExportNotes : textbox' = Append(textbox, n)
LastNote(t) == t[Len(t)]

\* C7: an export answers "No data to export!" exactly when current_info has not
\* been assigned since construction.
C7_NothingToExportIffNothingFetched ==
    [][ExportStep => ((LastNote(textbox') = NoData) <=> ~fetched)]_vars

\* C8: an export step leaves current_info unchanged; whatever the file system
\* does, the exporters return True or the error's text, and the handler reports
\* that text in the textbox.
C8_ExportLeavesSessionState ==
    [][ExportStep =>
         /\ current_info' = current_info
         /\ \A io \in IoOutcomes :
              LET j == export_json(current_info, <<>>, io).res
                  c == export_csv(current_info, <<>>, io).res
              IN  /\ io = "ok" => j = PyTrue /\ c = PyTrue
                  /\ io # "ok" => j[1] = "str" /\ c[1] = "str"
         /\ Truthy(current_info) => LastNote(textbox') # NoData]_vars

\* an export of a fetched record failed on the file system and said so
C8_Witness ==
    /\ Truthy(current_info)
    /\ textbox # <<>>
    /\ LastNote(textbox) = ErrorNote("JSON", IoError)

RECURSIVE FlatRows(_, _)
RECURSIVE ItemRows(_, _, _)
\* the rows the flat export is to give for the fields of an Object
FlatRows(fields, prefix) ==
    IF fields = <<>> THEN <<>>
    ELSE LET k == Head(fields)[1]
             v == Head(fields)[2]
         IN  (IF IsList(v)
              THEN << <<prefix \o k>> >> \o ItemRows(v[2], 1, prefix)
              ELSE << <<prefix \o k, CsvField(v)>> >>)
             \o FlatRows(Tail(fields), prefix)
ItemRows(elems, i, prefix) ==
    IF i > Len(elems) THEN <<>>
    ELSE (IF IsDict(elems[i])
          THEN << <<"  Item " \o ToString(i)>> >>
               \o FlatRows(Items(elems[i]), prefix \o "    ")
          ELSE << <<"  Item " \o ToString(i) \o ": " \o PyFormat(elems[i])>> >>)
         \o ItemRows(elems, i + 1, prefix)

RECURSIVE FlatCovers(_)
\* the records the flat export's rule speaks of: fields hold scalars or Lists,
\* Lists hold scalars or such Objects
FlatCovers(d) ==
    \A n \in 1..Len(Items(d)) :
      LET v == Items(d)[n][2]
      IN  \/ IsScalar(v)
          \/ IsList(v) /\ \A j \in 1..Len(v[2]) :
                            \/ IsScalar(v[2][j])
                            \/ IsDict(v[2][j]) /\ FlatCovers(v[2][j])

ExampleRows ==
    << <<"A", "1">>, <<"B">>, <<"  Item 1">>, <<"    C", "2">>,
       <<"  Item 2">>, <<"    C", "3">> >>

\* C9: a successful flat export writes, field by field, a (label, value) row for
\* a scalar and a header row then the items' rows for a List; the example
\* record gives its six rows.
C9_FlatRows ==
    (phase = "csv" /\ result = PyTrue) =>
      /\ FlatCovers(record) => csvFile = FlatRows(Items(record), "")
      /\ record = Example => csvFile = ExampleRows

\* the example record has been exported
C9_Witness == phase = "csv" /\ result = PyTrue /\ record = Example /\ csvFile = ExampleRows

\* C10: a structured export that returned True, parsed back, gives the record.
C10_RoundTrip == phase = "reparsed" => reparsed = record

\* a record with an empty Object, an empty List and a two-element List went round
C10_Witness ==
    /\ phase = "reparsed"
    /\ reparsed = record
    /\ record = PyDict(<< <<"B", PyList(<< PyDict(<<>>), PyStr("1") >>)>>,
                          <<"A", PyDict(<< <<"C", PyList(<<>>)>> >>)>> >>)

====
